---- MODULE Spec2Model ----
(***************************************************************************)
(* Model of check_links.py: the link checker of awesome-openclaw-skills.   *)
(*                                                                         *)
(* Two specifications share the module.                                    *)
(*   Spec      one run of main(): extract the link entries of README.md,   *)
(*             probe them on a thread pool, aggregate, optionally rewrite  *)
(*             the document, exit.                                         *)
(*   LinkSpec  check_link as a function of its URL, its token and the      *)
(*             result of the one HEAD request it sends.                    *)
(*                                                                         *)
(* Strings the code takes apart (URL paths) are sequences of atoms, "/"    *)
(* being the separator; strings it only builds or compares are strings.    *)
(* An Optional[...] value is <<>> for None and <<v>> for a value v.        *)
(***************************************************************************)
EXTENDS Integers, Sequences, FiniteSets, TLC

VARIABLES
    document,      \* README.md on disk: the sequence of its lines
    origDoc,       \* README.md as it was when the run started
    exists,        \* os.path.exists(readme_path)
    deleteFlag,    \* args.delete
    github_token,  \* os.environ.get("GITHUB_TOKEN")
    pc,            \* position of main
    links,         \* the entries extract_links_from_readme returned
    futures,       \* per submitted entry: the state of its future
    results,       \* check_all_links' result list, in completion order
    probeCount,    \* per entry: how many times check_link was called for it
    writes,        \* how many times README.md was opened for writing
    deleted,       \* what delete_invalid_lines returned (0 before)
    exitCode,      \* argument of sys.exit (<<>> while running)
    call           \* LinkSpec: one call of check_link

vars == <<document, origDoc, exists, deleteFlag, github_token, pc, links,
          futures, results, probeCount, writes, deleted, exitCode, call>>

runVars == <<document, origDoc, exists, deleteFlag, github_token, pc, links,
             futures, results, probeCount, writes, deleted, exitCode>>

-----------------------------------------------------------------------------
(* Bounds *)

\* Longest README.md, in lines.
MaxLines == 3

\* Most lines of README.md that are link entries.
MaxLinks == 2

\* Longest URL path of LinkSpec, in atoms after the leading "/".
MaxPathLen == 6

-----------------------------------------------------------------------------
(* Optional values *)

None == <<>>

Some(v) == <<v>>

\* Python truthiness of Optional[str]: None and "" are false.
Truthy(opt) == opt # None /\ opt[1] # ""

-----------------------------------------------------------------------------
(* URLs *)

\* str.split('/') of a string given as atoms: the segments between the "/".
RECURSIVE SplitSlash(_)
SplitSlash(s) ==
    IF s = <<>> THEN << <<>> >>
    ELSE LET rest == SplitSlash(Tail(s)) IN
         IF Head(s) = "/" THEN << <<>> >> \o rest
         ELSE << <<Head(s)>> \o Head(rest) >> \o Tail(rest)

\* '/'.join(parts)
RECURSIVE JoinSlash(_)
JoinSlash(parts) ==
    IF parts = <<>> THEN <<>>
    ELSE IF Len(parts) = 1 THEN parts[1]
    ELSE parts[1] \o <<"/">> \o JoinSlash(Tail(parts))

\* A URL as urlparse sees it: scheme://netloc path ?query
MkURL(scheme, netloc, path, query) ==
    [scheme |-> scheme, netloc |-> netloc, path |-> path, query |-> query]

\* f"https://api.github.com/repos/{repo_owner}/{repo_name}/contents/{file_path}?ref={branch}"
ApiURL(repo_owner, repo_name, file_path, branch) ==
    MkURL("https", "api.github.com",
          <<"/", "repos", "/">> \o repo_owner \o <<"/">> \o repo_name
              \o <<"/", "contents", "/">> \o file_path,
          <<"ref=">> \o branch)

is_github(url) == url.netloc = "github.com"

\* check_url of check_link, with the length test off by one.
CheckTargetShortPath(url) ==
    IF is_github(url)
    THEN LET path_parts == SplitSlash(url.path) IN
         IF Len(path_parts) >= 5 /\ path_parts[4] = <<"tree">>
         THEN ApiURL(path_parts[2], path_parts[3],
                     JoinSlash(SubSeq(path_parts, 6, Len(path_parts))),
                     path_parts[5])
         ELSE url
    ELSE url

\* check_url of check_link.
CheckTarget(url) ==
    IF is_github(url)
    THEN LET path_parts == SplitSlash(url.path) IN
         IF Len(path_parts) >= 6 /\ path_parts[4] = <<"tree">>
         THEN LET repo_owner == path_parts[2]
                  repo_name  == path_parts[3]
                  branch     == path_parts[5]
                  file_path  == JoinSlash(SubSeq(path_parts, 6, Len(path_parts)))
              IN ApiURL(repo_owner, repo_name, file_path, branch)
         ELSE url
    ELSE url

\* The headers check_link adds to the request.
UserAgent == <<"User-Agent", "awesome-openclaw-skills-link-checker/1.0">>

AuthHeaders(token) ==
    { <<"Authorization", "token " \o token>>,
      <<"Accept", "application/vnd.github.v3+json">> }

RequestHeadersAnyHost(url, token) ==
    {UserAgent} \cup (IF Truthy(token) THEN AuthHeaders(token[1]) ELSE {})

RequestHeaders(url, token) ==
    {UserAgent}
        \cup (IF is_github(url) /\ Truthy(token) THEN AuthHeaders(token[1]) ELSE {})

\* urllib.request.Request(check_url, method='HEAD') with its headers.
BuildRequest(url, token) ==
    [method |-> "HEAD", target |-> CheckTarget(url),
     headers |-> RequestHeaders(url, token)]


-----------------------------------------------------------------------------
(* The HEAD request and its classification *)

\* Statuses urlopen returns normally: its HTTPErrorProcessor passes 2xx
\* only, every other status is handed to the error handlers.
ResponseStatuses == {200, 204}

\* Statuses urlopen raises as HTTPError: a 3xx that is not followed (304, a
\* redirect without Location, a redirect loop), 4xx and 5xx.
HTTPErrorStatuses == {304, 403, 404, 429, 500}

MkProbe(kind, status, msg) == [kind |-> kind, status |-> status, msg |-> msg]

\* What urlopen can do with one request.
ProbeResults ==
    { MkProbe("HTTPResponse", s, "") : s \in ResponseStatuses }
        \cup { MkProbe("OtherResponse", 0, "") }
        \cup { MkProbe("HTTPError", s, "") : s \in HTTPErrorStatuses }
        \cup { MkProbe("URLError", 0, "Name or service not known"),
               MkProbe("TimeoutError", 0, "timed out"),
               MkProbe("Exception", 0, "Remote end closed connection") }

\* The answers the network gives during a run of main: one per return
\* statement of check_link.
RunProbeResults ==
    { MkProbe("HTTPResponse", 200, "") }
        \cup { MkProbe("HTTPError", s, "") : s \in {403, 404, 429, 500} }
        \cup { MkProbe("URLError", 0, "Name or service not known"),
               MkProbe("TimeoutError", 0, "timed out"),
               MkProbe("Exception", 0, "Remote end closed connection") }

Ret(status_code, error, is_valid) ==
    [raised |-> FALSE, status_code |-> status_code, error |-> error,
     is_valid |-> is_valid]

\* An exception leaving check_link.
Raised == [raised |-> TRUE, status_code |-> None, error |-> None, is_valid |-> FALSE]

\* The except HTTPError branch without its 403 and 429 cases.
HTTPErrorRetNoRateLimitCase(status_code) ==
    IF status_code = 404 THEN Ret(Some(status_code), Some("Not Found"), FALSE)
    ELSE Ret(Some(status_code), Some("HTTP " \o ToString(status_code)), FALSE)

\* The except HTTPError branch with the 3xx statuses taken for valid.
HTTPErrorRetRedirectValid(status_code) ==
    IF status_code = 404 THEN Ret(Some(status_code), Some("Not Found"), FALSE)
    ELSE IF status_code = 403
         THEN Ret(Some(status_code), Some("Forbidden (rate limited?)"), TRUE)
    ELSE IF status_code = 429
         THEN Ret(Some(status_code), Some("Too Many Requests"), TRUE)
    ELSE Ret(Some(status_code), Some("HTTP " \o ToString(status_code)),
             200 <= status_code /\ status_code < 400)

\* The except HTTPError branch.
HTTPErrorRet(status_code) ==
    IF status_code = 404 THEN Ret(Some(status_code), Some("Not Found"), FALSE)
    ELSE IF status_code = 403
         THEN Ret(Some(status_code), Some("Forbidden (rate limited?)"), TRUE)
    ELSE IF status_code = 429
         THEN Ret(Some(status_code), Some("Too Many Requests"), TRUE)
    ELSE Ret(Some(status_code), Some("HTTP " \o ToString(status_code)), FALSE)

\* The try block of check_link without its last handler, except Exception.
ClassifyNoCatchAll(probe) ==
    CASE probe.kind = "HTTPResponse" ->
            Ret(Some(probe.status), None, 200 <= probe.status /\ probe.status < 400)
      [] probe.kind = "OtherResponse" -> Ret(Some(200), None, TRUE)
      [] probe.kind = "HTTPError" -> HTTPErrorRet(probe.status)
      [] probe.kind = "URLError" -> Ret(None, Some("URL Error: " \o probe.msg), FALSE)
      [] probe.kind = "TimeoutError" -> Ret(None, Some("Timeout"), FALSE)
      [] OTHER -> Raised

\* The try block of check_link: urlopen and the four handlers.
Classify(probe) ==
    CASE probe.kind = "HTTPResponse" ->
            Ret(Some(probe.status), None, 200 <= probe.status /\ probe.status < 400)
      [] probe.kind = "OtherResponse" -> Ret(Some(200), None, TRUE)
      [] probe.kind = "HTTPError" -> HTTPErrorRet(probe.status)
      [] probe.kind = "URLError" -> Ret(None, Some("URL Error: " \o probe.msg), FALSE)
      [] probe.kind = "TimeoutError" -> Ret(None, Some("Timeout"), FALSE)
      [] OTHER -> Ret(None, Some("Error: " \o probe.msg), FALSE)

\* check_link(name, url, github_token), probe being what urlopen does with
\* the request: the request sent and the tuple returned.
check_link(name, url, token, probe) ==
    [request |-> BuildRequest(url, token), ret |-> Classify(probe)]

-----------------------------------------------------------------------------
(* README.md *)

\* The content of a line: a list item "- [name](url)" or other text.
MkItem(name, url) == [item |-> TRUE, name |-> name, url |-> url, text |-> ""]

MkText(text) ==
    [item |-> FALSE, name |-> "", url |-> MkURL("", "", <<>>, <<>>), text |-> text]

TextLine == MkText("# Awesome OpenClaw Skills")

OtherItem ==
    MkItem("docs", MkURL("https", "docs.openclaw.ai", <<"/", "skills">>, <<>>))

SkillItem ==
    MkItem("weather",
           MkURL("https", "github.com",
                 <<"/", "openclaw", "/", "skills", "/", "tree", "/", "main", "/",
                   "skills", "/", "weather", "/", "SKILL.md">>,
                 <<>>))

LineContents == {TextLine, OtherItem, SkillItem}

IsPrefix(p, s) == Len(p) <= Len(s) /\ SubSeq(s, 1, Len(p)) = p

\* pattern.search(line): - [name](https://github.com/openclaw/skills/...)
\* with a non-empty name and at least one character after the prefix.
PatternMatches(content) ==
    /\ content.item
    /\ content.name # ""
    /\ content.url.scheme = "https"
    /\ content.url.netloc = "github.com"
    /\ IsPrefix(<<"/", "openclaw", "/", "skills", "/">>, content.url.path)
    /\ \/ Len(content.url.path) > 5
       \/ content.url.query # <<>>

\* The documents a run can start from. A line carries its content and, as
\* origin, the position it had when the run started; the code reads content
\* only.
Documents ==
    { [n \in DOMAIN d |-> [origin |-> n, content |-> d[n]]] :
        d \in { e \in UNION { [1..k -> LineContents] : k \in 0..MaxLines } :
                  Cardinality({n \in DOMAIN e : PatternMatches(e[n])}) <= MaxLinks } }

\* The loop of extract_links_from_readme from line line_num on.
RECURSIVE ExtractFrom(_, _)
ExtractFrom(doc, line_num) ==
    IF line_num > Len(doc) THEN <<>>
    ELSE LET line == doc[line_num].content
             tail == ExtractFrom(doc, line_num + 1)
         IN IF PatternMatches(line)
            THEN << [name |-> line.name, url |-> line.url, line_num |-> line_num,
                     original_line |-> line] >> \o tail
            ELSE tail

extract_links_from_readme(doc) == ExtractFrom(doc, 1)

-----------------------------------------------------------------------------
(* check_all_links *)

MkLinkResult(link, ret) ==
    [name |-> link.name, url |-> link.url, line_num |-> link.line_num,
     original_line |-> link.original_line, status_code |-> ret.status_code,
     error |-> ret.error, is_valid |-> ret.is_valid]

\* check_with_delay(link_tuple): the LinkResult, or the exception raised.
check_with_delay(link, token, probe) ==
    LET r == check_link(link.name, link.url, token, probe).ret IN
    [raised |-> r.raised, result |-> MkLinkResult(link, r)]

\* max_workers as main chooses it.
max_workers(token) == IF Truthy(token) THEN 20 ELSE 5

Running(futs) == {i \in DOMAIN futs : futs[i].state = "running"}

\* results.append(result) replaced by an assignment.
AppendResultOverwrite(res, r) == <<r>>

\* results.append(result)
AppendResult(res, r) == Append(res, r)

\* as_completed stopping once no finished future is left to yield.
AsCompletedExhaustedEarly(futs) ==
    \A i \in DOMAIN futs : futs[i].state # "finished"

\* The loop over as_completed(futures) ends: every future was yielded.
AsCompletedExhausted(futs) ==
    \A i \in DOMAIN futs : futs[i].state = "collected"

-----------------------------------------------------------------------------
(* delete_invalid_lines *)

invalid_lines(res) == {res[j].line_num : j \in {k \in DOMAIN res : ~res[k].is_valid}}

\* [line for line_num, line in enumerate(lines, start) if line_num not in skip]
RECURSIVE KeepLines(_, _, _)
KeepLines(lines, line_num, skip) ==
    IF lines = <<>> THEN <<>>
    ELSE (IF line_num \in skip THEN <<>> ELSE <<Head(lines)>>)
             \o KeepLines(Tail(lines), line_num + 1, skip)

\* delete_invalid_lines with enumerate(lines) counting from 0.
DeleteInvalidLinesFromZero(doc, res) ==
    IF invalid_lines(res) = {}
    THEN [lines |-> doc, wrote |-> FALSE, count |-> 0]
    ELSE [lines |-> KeepLines(doc, 0, invalid_lines(res)), wrote |-> TRUE,
          count |-> Cardinality(invalid_lines(res))]

\* delete_invalid_lines(readme_path, results): the lines of the file after
\* the call, whether it was written, and the count returned.
delete_invalid_lines(doc, res) ==
    IF invalid_lines(res) = {}
    THEN [lines |-> doc, wrote |-> FALSE, count |-> 0]
    ELSE [lines |-> KeepLines(doc, 1, invalid_lines(res)), wrote |-> TRUE,
          count |-> Cardinality(invalid_lines(res))]

-----------------------------------------------------------------------------
(* main *)

valid_count(res) == Cardinality({j \in DOMAIN res : res[j].is_valid})

invalid_count(res) == Len(res) - valid_count(res)

\* The test before delete_invalid_lines without args.delete.
ShouldDeleteAlways == invalid_count(results) > 0

\* if args.delete and invalid_count > 0
ShouldDelete == deleteFlag /\ invalid_count(results) > 0

\* The exit status taken from the invalid entries left after the deletion.
ExitStatusAfterDelete == IF invalid_count(results) - deleted > 0 THEN 1 ELSE 0

\* if invalid_count > 0: sys.exit(1); sys.exit(0)
ExitStatus == IF invalid_count(results) > 0 THEN 1 ELSE 0

Tokens == {None, Some(""), Some("ghp_token")}

\* The values of GITHUB_TOKEN a run of main starts with.
RunTokens == {None, Some("ghp_token")}

\* LinkSpec's variable while main runs.
NoCall == [state |-> "none"]

Init ==
    /\ exists \in BOOLEAN
    /\ document \in (IF exists THEN Documents ELSE { <<>> })
    /\ origDoc = document
    /\ deleteFlag \in BOOLEAN
    /\ github_token \in RunTokens
    /\ pc = "start"
    /\ links = <<>>
    /\ futures = <<>>
    /\ results = <<>>
    /\ probeCount = <<>>
    /\ writes = 0
    /\ deleted = 0
    /\ exitCode = None
    /\ call = NoCall

\* if not os.path.exists(readme_path): sys.exit(1)
CheckExists ==
    /\ pc = "start"
    /\ IF exists
       THEN pc' = "extract" /\ exitCode' = exitCode
       ELSE pc' = "done" /\ exitCode' = Some(1)
    /\ UNCHANGED <<document, origDoc, exists, deleteFlag, github_token, links,
                   futures, results, probeCount, writes, deleted, call>>

\* links = extract_links_from_readme(readme_path); without links sys.exit(0),
\* else check_all_links starts with no future submitted.
Extract ==
    /\ pc = "extract"
    /\ links' = extract_links_from_readme(document)
    /\ futures' = [i \in DOMAIN links' |-> [state |-> "new", raised |-> FALSE,
                                             result |-> None]]
    /\ probeCount' = [i \in DOMAIN links' |-> 0]
    /\ IF links' = <<>>
       THEN pc' = "done" /\ exitCode' = Some(0)
       ELSE pc' = "submit" /\ exitCode' = exitCode
    /\ UNCHANGED <<document, origDoc, exists, deleteFlag, github_token, results,
                   writes, deleted, call>>

\* executor.submit(check_with_delay, link), for the links in order; after the
\* last one main enters the as_completed loop.
Submit ==
    /\ pc = "submit"
    /\ \E i \in DOMAIN futures :
          /\ futures[i].state = "new"
          /\ \A j \in 1..(i - 1) : futures[j].state # "new"
          /\ futures' = [futures EXCEPT ![i].state = "pending"]
          /\ pc' = IF i = Len(futures) THEN "collect" ELSE "submit"
    /\ UNCHANGED <<document, origDoc, exists, deleteFlag, github_token, links,
                   results, probeCount, writes, deleted, exitCode, call>>

\* A pool thread takes a submitted task; at most max_workers run at a time.
WorkerStart(i) ==
    /\ pc \in {"submit", "collect"}
    /\ futures[i].state = "pending"
    /\ Cardinality(Running(futures)) < max_workers(github_token)
    /\ futures' = [futures EXCEPT ![i].state = "running"]
    /\ UNCHANGED <<document, origDoc, exists, deleteFlag, github_token, pc, links,
                   results, probeCount, writes, deleted, exitCode, call>>

\* The task runs check_with_delay to its end: one check_link, the sleep, the
\* LinkResult (or the exception) set on the future.
WorkerFinish(i) ==
    /\ pc \in {"submit", "collect"}
    /\ futures[i].state = "running"
    /\ \E probe \in RunProbeResults :
          LET r == check_with_delay(links[i], github_token, probe) IN
          futures' = [futures EXCEPT ![i] = [state |-> "finished",
                                             raised |-> r.raised,
                                             result |-> Some(r.result)]]
    /\ probeCount' = [probeCount EXCEPT ![i] = @ + 1]
    /\ UNCHANGED <<document, origDoc, exists, deleteFlag, github_token, pc, links,
                   results, writes, deleted, exitCode, call>>

\* One turn of the as_completed loop: future.result() of a finished future
\* is appended, or re-raises what the task raised, which ends the run.
Collect(i) ==
    /\ pc = "collect"
    /\ futures[i].state = "finished"
    /\ futures' = [futures EXCEPT ![i].state = "collected"]
    /\ IF futures[i].raised
       THEN /\ pc' = "crashed"
            /\ exitCode' = Some(1)
            /\ results' = results
       ELSE /\ pc' = pc
            /\ exitCode' = exitCode
            /\ results' = AppendResult(results, futures[i].result[1])
    /\ UNCHANGED <<document, origDoc, exists, deleteFlag, github_token, links,
                   probeCount, writes, deleted, call>>

\* The loop and the with block end; check_all_links returns results.
Return ==
    /\ pc = "collect"
    /\ AsCompletedExhausted(futures)
    /\ pc' = "aggregate"
    /\ UNCHANGED <<document, origDoc, exists, deleteFlag, github_token, links,
                   futures, results, probeCount, writes, deleted, exitCode, call>>

\* main counts the outcomes and decides whether to delete.
Aggregate ==
    /\ pc = "aggregate"
    /\ pc' = IF ShouldDelete THEN "rewrite" ELSE "exit"
    /\ UNCHANGED <<document, origDoc, exists, deleteFlag, github_token, links,
                   futures, results, probeCount, writes, deleted, exitCode, call>>

\* deleted = delete_invalid_lines(readme_path, results)
Rewrite ==
    /\ pc = "rewrite"
    /\ LET r == delete_invalid_lines(document, results) IN
          /\ document' = r.lines
          /\ writes' = writes + (IF r.wrote THEN 1 ELSE 0)
          /\ deleted' = r.count
    /\ pc' = "exit"
    /\ UNCHANGED <<origDoc, exists, deleteFlag, github_token, links, futures,
                   results, probeCount, exitCode, call>>

\* sys.exit(1) or sys.exit(0)
Exit ==
    /\ pc = "exit"
    /\ exitCode' = Some(ExitStatus)
    /\ pc' = "done"
    /\ UNCHANGED <<document, origDoc, exists, deleteFlag, github_token, links,
                   futures, results, probeCount, writes, deleted, call>>

Next ==
    \/ CheckExists
    \/ Extract
    \/ Submit
    \/ \E i \in DOMAIN futures : WorkerStart(i)
    \/ \E i \in DOMAIN futures : WorkerFinish(i)
    \/ \E i \in DOMAIN futures : Collect(i)
    \/ Return
    \/ Aggregate
    \/ Rewrite
    \/ Exit

Spec == Init /\ [][Next]_vars

-----------------------------------------------------------------------------
(* check_link on its own *)

PathAtoms == {"/", "tree", "a"}

\* The paths urlparse yields next to a netloc: empty, or starting with "/".
Paths ==
    { <<>> } \cup { <<"/">> \o p :
                      p \in UNION { [1..k -> PathAtoms] : k \in 0..MaxPathLen } }

URLs ==
    { MkURL("https", netloc, path, <<>>) :
        netloc \in {"github.com", "example.com"}, path \in Paths }

LinkInit ==
    /\ call \in { [state |-> "ready", url |-> u, token |-> t] :
                    u \in URLs, t \in Tokens }
    /\ exists = FALSE
    /\ document = <<>>
    /\ origDoc = <<>>
    /\ deleteFlag = FALSE
    /\ github_token = None
    /\ pc = "idle"
    /\ links = <<>>
    /\ futures = <<>>
    /\ results = <<>>
    /\ probeCount = <<>>
    /\ writes = 0
    /\ deleted = 0
    /\ exitCode = None

\* check_link("skill", url, token) is called and returns.
LinkCall ==
    /\ call.state = "ready"
    /\ \E probe \in ProbeResults :
          LET r == check_link("skill", call.url, call.token, probe) IN
          call' = [state |-> "returned", url |-> call.url, token |-> call.token,
                   probe |-> probe, request |-> r.request, ret |-> r.ret]
    /\ UNCHANGED runVars

LinkNext == LinkCall

LinkSpec == LinkInit /\ [][LinkNext]_vars

-----------------------------------------------------------------------------
(* Properties of check_link, checked under LinkSpec *)

Returned == call.state = "returned"

InRange(s) == 200 <= s /\ s < 400

HeaderNames(req) == {h[1] : h \in req.headers}

\* C1 as stated: the validity flag is true exactly when a status code was
\* obtained and it lies in [200,400) or is 403 or 429.
C1_ValidIffStatusInRange ==
    Returned =>
        (call.ret.is_valid <=>
            /\ call.ret.status_code # None
            /\ \/ InRange(call.ret.status_code[1])
               \/ call.ret.status_code[1] \in {403, 429})

\* C1 amended: the validity flag is true exactly when urlopen returned a
\* response whose status lies in [200,400), or raised an HTTPError whose
\* status is 403 or 429; it is false for an HTTPError of any other status
\* (404, 5xx, and 3xx such as 304) and whenever no status was obtained. The
\* status reported is the one of the response or of the HTTPError.
C1_ValidIffResponseOrRateLimit ==
    Returned =>
        /\ ~call.ret.raised
        /\ call.probe.kind \in {"HTTPResponse", "HTTPError"}
              => call.ret.status_code = Some(call.probe.status)
        /\ call.probe.kind \in {"URLError", "TimeoutError", "Exception"}
              => call.ret.status_code = None
        /\ call.ret.is_valid <=>
              \/ /\ call.probe.kind \in {"HTTPResponse", "OtherResponse"}
                 /\ InRange(call.ret.status_code[1])
              \/ /\ call.probe.kind = "HTTPError"
                 /\ call.probe.status \in {403, 429}

C1_Witness ==
    /\ Returned
    /\ call.probe.kind = "HTTPError"
    /\ call.probe.status = 304
    /\ call.ret.status_code = Some(304)
    /\ ~call.ret.is_valid

\* C7 as stated: the token and Accept headers are attached exactly when the
\* check target was rewritten to the API form and a token is supplied, and
\* every request carries the User-Agent header.
C7_TokenIffRewritten ==
    Returned =>
        /\ UserAgent \in call.request.headers
        /\ {"Authorization", "Accept"} \subseteq HeaderNames(call.request)
              <=> (call.request.target # call.url /\ call.token \notin {None, Some("")})
        /\ "Authorization" \in HeaderNames(call.request)
              <=> "Accept" \in HeaderNames(call.request)

\* C7 amended: the token and Accept headers are attached exactly when the
\* URL's host is github.com and a non-empty token is supplied, whether or not
\* the check target was rewritten; a request for any other host carries no
\* token, and every request carries the User-Agent header.
C7_TokenIffGithubHost ==
    Returned =>
        /\ UserAgent \in call.request.headers
        /\ IF call.url.netloc = "github.com" /\ call.token \notin {None, Some("")}
           THEN call.request.headers =
                    { UserAgent,
                      <<"Authorization", "token " \o call.token[1]>>,
                      <<"Accept", "application/vnd.github.v3+json">> }
           ELSE call.request.headers = {UserAgent}

C7_Witness ==
    /\ Returned
    /\ call.url.netloc = "github.com"
    /\ call.request.target = call.url
    /\ call.token = Some("ghp_token")
    /\ <<"Authorization", "token ghp_token">> \in call.request.headers

\* The positions of the "/" of a path, and the k-th of them.
Slashes(p) == {i \in 1..Len(p) : p[i] = "/"}

NthSlash(p, k) ==
    CHOOSE i \in Slashes(p) : Cardinality({j \in Slashes(p) : j <= i}) = k

Between(p, a, b) == SubSeq(p, a + 1, b - 1)

\* The path has the shape /<owner>/<repo>/tree/<branch>/<file-path...>: what
\* precedes its first "/" counts as a segment, so it has five "/" or more,
\* and "tree" stands alone between the third and the fourth.
TreeShape(p) ==
    /\ Cardinality(Slashes(p)) >= 5
    /\ Between(p, NthSlash(p, 3), NthSlash(p, 4)) = <<"tree">>

\* C9: the check target is the contents-API URL of owner, repo, branch and
\* file path when the host is github.com and the path has the tree shape,
\* and the URL itself otherwise.
C9_CheckTarget ==
    Returned =>
        LET p == call.url.path IN
        IF call.url.netloc = "github.com" /\ TreeShape(p)
        THEN /\ call.request.target.scheme = "https"
             /\ call.request.target.netloc = "api.github.com"
             /\ call.request.target.path =
                    <<"/", "repos", "/">>
                        \o Between(p, NthSlash(p, 1), NthSlash(p, 2))
                        \o <<"/">>
                        \o Between(p, NthSlash(p, 2), NthSlash(p, 3))
                        \o <<"/", "contents", "/">>
                        \o SubSeq(p, NthSlash(p, 5) + 1, Len(p))
             /\ call.request.target.query =
                    <<"ref=">> \o Between(p, NthSlash(p, 4), NthSlash(p, 5))
        ELSE call.request.target = call.url

C9_Witness ==
    /\ Returned
    /\ call.url.path = <<"/", "a", "/", "/", "tree", "/", "/">>
    /\ call.request.target.netloc = "api.github.com"
    /\ call.request.target.path = <<"/", "repos", "/", "a", "/", "/", "contents", "/">>

-----------------------------------------------------------------------------
(* Properties of a run, checked under Spec *)

\* check_all_links has returned its result list to main.
BatchReturned ==
    \/ pc \in {"aggregate", "rewrite", "exit"}
    \/ pc = "done" /\ links # <<>>

Invalid(res) == {j \in DOMAIN res : ~res[j].is_valid}

OutcomesOf(link) ==
    {j \in DOMAIN results : results[j].line_num = link.line_num}

\* The lines of the document that stood at position n when the run started.
Remaining(n) == {k \in DOMAIN document : document[k].origin = n}

\* C2: when check_all_links returns, the outcomes and the entries are in 1:1
\* correspondence by line number, and each entry was probed exactly once.
C2_OneOutcomePerEntry ==
    BatchReturned =>
        /\ Len(results) = Len(links)
        /\ \A i \in DOMAIN links :
              /\ Cardinality(OutcomesOf(links[i])) = 1
              /\ \A j \in OutcomesOf(links[i]) :
                    /\ results[j].name = links[i].name
                    /\ results[j].url = links[i].url
                    /\ results[j].original_line = links[i].original_line
              /\ probeCount[i] = 1

\* Two entries whose checks completed in the reverse of submission order.
C2_Witness ==
    /\ BatchReturned
    /\ Len(links) = 2
    /\ Len(results) = 2
    /\ results[1].line_num > results[2].line_num

\* C3: after delete_invalid_lines, the document has the original line count
\* minus the number of invalid outcomes, which is the count returned, and
\* holds exactly the original lines whose position is not the line of an
\* invalid outcome, unchanged and in their original order.
C3_RewriteKeepsOtherLines ==
    (pc \in {"exit", "done"} /\ writes > 0) =>
        /\ Len(document) = Len(origDoc) - Cardinality(Invalid(results))
        /\ deleted = Cardinality(Invalid(results))
        /\ \A k \in DOMAIN document : document[k] = origDoc[document[k].origin]
        /\ \A k \in DOMAIN document :
              \A m \in DOMAIN document :
                  k < m => document[k].origin < document[m].origin
        /\ {document[k].origin : k \in DOMAIN document}
              = DOMAIN origDoc \ {results[j].line_num : j \in Invalid(results)}

\* The first line was removed and two lines remain.
C3_Witness ==
    /\ pc = "done"
    /\ writes = 1
    /\ Len(origDoc) = 3
    /\ Len(document) = 2
    /\ document[1].origin = 2
    /\ document[2].origin = 3

\* C4: an entry whose probe answered 403 or 429 has a valid outcome with the
\* error text of that status, and its line stays in the document.
C4_RateLimitedKept ==
    \A i \in DOMAIN futures :
        (futures[i].state \in {"finished", "collected"}
            /\ futures[i].result[1].status_code \in {Some(403), Some(429)}) =>
            LET r == futures[i].result[1] IN
            /\ r.is_valid
            /\ r.status_code = Some(403) => r.error = Some("Forbidden (rate limited?)")
            /\ r.status_code = Some(429) => r.error = Some("Too Many Requests")
            /\ \E k \in Remaining(r.line_num) : document[k].content = r.original_line

\* With the delete flag, one entry answered 403 and the other was removed.
C4_Witness ==
    /\ pc = "done"
    /\ deleteFlag
    /\ writes = 1
    /\ Len(document) < Len(origDoc)
    /\ \E j \in DOMAIN results :
          /\ results[j].status_code = Some(403)
          /\ Remaining(results[j].line_num) # {}

\* C5: a run whose document exists exits with 1 if some outcome is invalid
\* and with 0 otherwise, with or without the delete flag; without link
\* entries it exits with 0 and no check was performed.
C5_ExitStatus ==
    (pc = "done" /\ exists) =>
        /\ exitCode = Some(IF \E j \in DOMAIN results : ~results[j].is_valid
                           THEN 1 ELSE 0)
        /\ links = <<>> => (exitCode = Some(0) /\ futures = <<>> /\ results = <<>>)

\* The invalid lines were removed and the run still exits with 1.
C5_Witness ==
    /\ pc = "done"
    /\ deleteFlag
    /\ writes = 1
    /\ deleted > 0
    /\ exitCode = Some(1)

\* C6: no failure of a probe leaves check_link: every task ends with an
\* outcome, the batch never ends on an exception, and when check_all_links
\* returns every entry was attempted and has its outcome.
C6_FailuresBecomeOutcomes ==
    /\ pc # "crashed"
    /\ \A i \in DOMAIN futures :
          futures[i].state \in {"finished", "collected"} =>
              /\ ~futures[i].raised
              /\ futures[i].result # None
              /\ futures[i].result[1].line_num = links[i].line_num
    /\ BatchReturned =>
          \A i \in DOMAIN links :
              /\ probeCount[i] >= 1
              /\ OutcomesOf(links[i]) # {}

\* Both probes of a batch failed without a status, one on an unexpected
\* exception, and the batch returned both outcomes.
C6_Witness ==
    /\ BatchReturned
    /\ Len(results) = 2
    /\ results[1].error = Some("Error: Remote end closed connection")
    /\ results[2].error = Some("Timeout")
    /\ results[1].status_code = None
    /\ results[2].status_code = None

\* C8: the document changes only with the delete flag and an invalid
\* outcome; without the flag it is never written, and with the flag but no
\* invalid outcome nothing is written and no line is reported removed.
C8_DocumentFrame ==
    /\ (document # origDoc \/ writes > 0 \/ deleted > 0 \/ pc = "rewrite")
          => (deleteFlag /\ Invalid(results) # {})
    /\ (BatchReturned /\ Invalid(results) = {}) =>
          delete_invalid_lines(document, results)
              = [lines |-> origDoc, wrote |-> FALSE, count |-> 0]

\* A report-only run that found an invalid link and ended.
C8_Witness ==
    /\ pc = "done"
    /\ ~deleteFlag
    /\ Invalid(results) # {}
    /\ document = origDoc
    /\ writes = 0

AllCollected ==
    /\ Len(results) = Len(links)
    /\ \A i \in DOMAIN futures : futures[i].state = "collected"

\* The steps main may take from one phase to the next.
PhaseOrder ==
    { <<"start", "extract">>, <<"start", "done">>, <<"extract", "submit">>,
      <<"extract", "done">>, <<"submit", "collect">>, <<"collect", "aggregate">>,
      <<"aggregate", "rewrite">>, <<"aggregate", "exit">>, <<"rewrite", "exit">>,
      <<"exit", "done">> }

\* C10: the phases follow extract, pool, aggregate, rewrite, exit: nothing is
\* submitted before the extraction is over, and from the aggregation on,
\* the rewrite included, every submitted check has completed and its outcome
\* was collected, so the document is only written with no check pending or
\* in flight.
C10_PhasesOrdered ==
    /\ [](/\ pc \in {"start", "extract"} => (futures = <<>> /\ results = <<>>)
          /\ (pc = "rewrite" \/ writes > 0 \/ document # origDoc \/ BatchReturned)
                => AllCollected)
    /\ [][/\ pc' # pc => <<pc, pc'>> \in PhaseOrder
          /\ document' # document => (pc = "rewrite" /\ AllCollected)]_vars

\* The rewrite is about to run on the outcomes of two entries.
C10_Witness ==
    /\ pc = "rewrite"
    /\ Len(links) = 2
    /\ AllCollected
    /\ Invalid(results) # {}

====
